---- MODULE Spec2Model ----
(***************************************************************************)
(* A model of the news-sentiment pipeline: the source adapters and the     *)
(* fetch orchestration of fetch_news.py, the rule-based classifier and the *)
(* snapshot writer of predict.py, and the reader and the refresh button of *)
(* dashboard.py.                                                           *)
(*                                                                         *)
(* A Python str is modelled as a sequence of one-character strings, so     *)
(* that lower(), strip() and the substring test "word in title" are        *)
(* computed rather than assumed.                                           *)
(***************************************************************************)
EXTENDS Integers, Sequences, FiniteSets, TLC

VARIABLES
    dIn, dOut, dOut2, dPc,          \* the deduplication step on one input
    cTitle, cRes, cPc,              \* the classifier on one title
    aCall, aInput, aRes, aRequests, aPc,  \* one call of a source adapter
    now, ctimes,                    \* the wall clock (seconds), the count of file writes
    rawDir,                         \* data/raw: the raw batch files
    predDir, latestCsv, latestStats,  \* data/predictions
    fEnv,                           \* what the providers return during a fetch run
    fPc, fKey, fAll, fFeed, fCalls, fRet, fPre,  \* one run of fetch_news_simple
    pPc, pDf, pPreds, pTs, pRet, pPre,   \* one run of simple_predict
    rPc, rCsv, rStats,              \* the reader, load_latest_predictions
    uiPc, uiMsg, uiRuns, fExit, pExit    \* the dashboard's refresh handler

dedupVars == <<dIn, dOut, dOut2, dPc>>
classVars == <<cTitle, cRes, cPc>>
adapterVars == <<aCall, aInput, aRes, aRequests, aPc>>
fsVars == <<now, ctimes, rawDir, predDir, latestCsv, latestStats>>
fetchVars == <<fEnv, fPc, fKey, fAll, fFeed, fCalls, fRet, fPre>>
predVars == <<pPc, pDf, pPreds, pTs, pRet, pPre>>
readerVars == <<rPc, rCsv, rStats>>
uiVars == <<uiPc, uiMsg, uiRuns, fExit, pExit>>
vars == <<dedupVars, classVars, adapterVars, fsVars, fetchVars, predVars,
          readerVars, uiVars>>

\* what each part of the model leaves alone
pureVars == <<dedupVars, classVars, adapterVars>>
runVars == <<fsVars, fetchVars, predVars, readerVars, uiVars>>
notDedup == <<classVars, adapterVars, runVars>>
notClass == <<dedupVars, adapterVars, runVars>>
notAdapter == <<dedupVars, classVars, runVars>>
notFetch == <<pureVars, predVars, readerVars, uiVars>>
notPredict == <<pureVars, fetchVars, readerVars, uiVars>>
notReader == <<pureVars, fsVars, fetchVars, predVars, uiVars>>

(***************************************************************************)
(* Strings                                                                 *)
(***************************************************************************)
UpperCs == <<"A","B","C","D","E","F","G","H","I","J","K","L","M","N","O","P","Q","R","S","T","U","V","W","X","Y","Z">>
LowerCs == <<"a","b","c","d","e","f","g","h","i","j","k","l","m","n","o","p","q","r","s","t","u","v","w","x","y","z">>

\* str.lower() on one character (ASCII letters; every other character is kept)
LowerChar(c) ==
    IF \E i \in 1..Len(UpperCs) : UpperCs[i] = c
    THEN LowerCs[CHOOSE i \in 1..Len(UpperCs) : UpperCs[i] = c]
    ELSE c

\* str.lower()
Lower(s) == [i \in 1..Len(s) |-> LowerChar(s[i])]

\* the Python test "w in s": w occurs in s as a contiguous substring
Contains(s, w) ==
    \E i \in 1..(Len(s) - Len(w) + 1) : SubSeq(s, i, i + Len(w) - 1) = w

RECURSIVE Concat(_)
\* the concatenation of a sequence of strings
Concat(ss) == IF ss = <<>> THEN <<>> ELSE Head(ss) \o Concat(Tail(ss))

\* " ".join(words)
JoinWords(ws) ==
    Concat([i \in 1..Len(ws) |-> IF i = 1 THEN ws[i] ELSE <<" ">> \o ws[i]])

\* the characters str.strip() removes
Whitespace == {" ", "\t", "\n"}

\* str.strip()
Strip(s) ==
    LET keep == {i \in 1..Len(s) : s[i] \notin Whitespace}
    IN  IF keep = {} THEN <<>>
        ELSE SubSeq(s, CHOOSE i \in keep : \A j \in keep : i <= j,
                       CHOOSE i \in keep : \A j \in keep : i >= j)

\* the Python value None where a str is expected: no string of characters
PyNoneStr == <<"None">>

\* the truth value of a str-or-None: None and "" are false
TruthyStr(s) == s # PyNoneStr /\ s # <<>>

\* a returned Python value: a list, or None
PyList(items) == [isList |-> TRUE, items |-> items]
PyNone == [isList |-> FALSE, items |-> <<>>]

\* the truth value of a list-or-None: None and [] are false
Truthy(v) == v.isList /\ v.items # <<>>

\* all sequences over S of length 0..n
SeqsUpTo(S, n) == UNION {[1..k -> S] : k \in 0..n}

(***************************************************************************)
(* Deduplication: fetch_news.py, fetch_news_simple, lines 219-228          *)
(***************************************************************************)
\* the cap of the loop's "if len(unique_headlines) >= 20: break"
UniqueLimit == 20

\* a dedup key that forgets to lowercase
TitleKeyCaseSensitive(h) == h.title

\* title_lower = headline['title'].lower()
TitleKey(h) == Lower(h.title)

RECURSIVE DedupLoop(_, _, _, _)
\* the for loop from item i on, with the set seen_titles and the list
\* unique_headlines built so far; the break is tested after every item
DedupLoop(all, i, seen, unique) ==
    IF i > Len(all) THEN unique
    ELSE LET tl      == TitleKey(all[i])
             keep    == tl \notin seen
             seen2   == IF keep THEN seen \cup {tl} ELSE seen
             unique2 == IF keep THEN Append(unique, all[i]) ELSE unique
         IN  IF Len(unique2) >= UniqueLimit THEN unique2
             ELSE DedupLoop(all, i + 1, seen2, unique2)

RECURSIVE DedupSkipLoop(_, _, _, _)
\* a loop that drops a duplicate by removing it from the list it iterates
\* over, so that the item after a dropped one is never tested
DedupSkipLoop(all, i, seen, unique) ==
    IF i > Len(all) THEN unique
    ELSE LET tl == TitleKey(all[i])
         IN  IF tl \notin seen
             THEN IF Len(unique) + 1 >= UniqueLimit THEN Append(unique, all[i])
                  ELSE DedupSkipLoop(all, i + 1, seen \cup {tl}, Append(unique, all[i]))
             ELSE IF i + 1 > Len(all) THEN unique
                  ELSE IF Len(unique) + 1 >= UniqueLimit THEN Append(unique, all[i + 1])
                  ELSE DedupSkipLoop(all, i + 2, seen \cup {TitleKey(all[i + 1])},
                                     Append(unique, all[i + 1]))

DedupSkipNext(all) == DedupSkipLoop(all, 1, {}, <<>>)

\* seen_titles = set(); unique_headlines = []; the loop
Dedup(all) == DedupLoop(all, 1, {}, <<>>)

\* ---- the inputs of the deduplication check ----
MaxLen == 3
MaxRamp == 23

Letters == <<"a", "b", "c", "d", "e">>

\* the j-th of 25 titles (j in 0..24) whose lowercased forms are pairwise
\* distinct, upper-cased when up
NthTitle(j, up) ==
    LET t == <<Letters[(j \div 5) + 1], Letters[(j % 5) + 1]>>
    IN  IF up THEN [i \in 1..2 |-> UpperCs[CHOOSE k \in 1..26 : LowerCs[k] = t[i]]]
        ELSE t

\* n headlines cycling through k titles, each title d times in a row, the
\* case alternating with the position
Ramp(n, k, d) ==
    [i \in 1..n |-> [title  |-> NthTitle(((i - 1) \div d) % k, i % 2 = 0),
                     source |-> IF i % 3 = 0 THEN "BBC News" ELSE "CNN"]]

SmallHeadlines ==
    [title : {<<"A">>, <<"a">>, <<"B">>}, source : {"BBC News", "CNN"}]

DedupInputs ==
    SeqsUpTo(SmallHeadlines, MaxLen)
    \cup {Ramp(d * n, k, d) : n \in 19..MaxRamp, k \in {1, 2, 19, 20, 21, 25},
                               d \in {1, 2}}

DedupIdle == dIn = <<>> /\ dOut = <<>> /\ dOut2 = <<>> /\ dPc = "idle"

DedupInit == dIn \in DedupInputs /\ dOut = <<>> /\ dOut2 = <<>> /\ dPc = "start"

\* the deduplication step applied to the accumulated list
DedupOnce ==
    /\ dPc = "start"
    /\ dOut' = Dedup(dIn)
    /\ dPc' = "once"
    /\ UNCHANGED <<dIn, dOut2, notDedup>>

\* the deduplication step applied to its own output
DedupTwice ==
    /\ dPc = "once"
    /\ dOut2' = Dedup(dOut)
    /\ dPc' = "twice"
    /\ UNCHANGED <<dIn, dOut, notDedup>>

\* ---- C8, C9 ----
Titles(hs) == [i \in 1..Len(hs) |-> hs[i].title]

\* the positions of the input whose lowercased title occurs at no earlier position
FirstOccurrences(all) ==
    {i \in 1..Len(all) :
        \A j \in 1..(i - 1) : Lower(all[j].title) # Lower(all[i].title)}

\* the first min(20, number of distinct lowercased titles) of them
KeptPositions(all) ==
    {i \in FirstOccurrences(all) :
        Cardinality({j \in FirstOccurrences(all) : j < i}) < 20}

\* the items at a set of positions, in input order
ItemsAt(all, K) ==
    [n \in 1..Cardinality(K) |->
        all[CHOOSE i \in K : Cardinality({j \in K : j < i}) = n - 1]]

\* C8: the deduplication step outputs the subsequence of the input made of the
\* first min(20, number of distinct lowercased titles) first occurrences, in
\* input order: at most 20 items with pairwise distinct lowercased titles;
\* titles A, a, B give A, B.
C8_DedupFirstSeen ==
    dPc \in {"once", "twice"} =>
        /\ dOut = ItemsAt(dIn, KeptPositions(dIn))
        /\ Len(dOut) <= 20
        /\ \A i, j \in 1..Len(dOut) :
               i # j => Lower(dOut[i].title) # Lower(dOut[j].title)
        /\ Titles(dIn) = << <<"A">>, <<"a">>, <<"B">> >>
               => Titles(dOut) = << <<"A">>, <<"B">> >>

\* a run in which the cap of 20 cuts off further distinct titles and
\* duplicates were dropped before it
C8_Witness ==
    /\ dPc = "once"
    /\ Len(dOut) = 20
    /\ Cardinality(FirstOccurrences(dIn)) > 20
    /\ \E i \in 1..20 : i \notin FirstOccurrences(dIn)

\* C9: deduplication is idempotent: applied to its own output it yields the
\* same sequence.
C9_DedupIdempotent == dPc = "twice" => dOut2 = dOut

\* a second application to an output from which duplicates had been dropped
C9_Witness ==
    dPc = "twice" /\ Len(dOut) >= 2 /\ Len(dOut) < Len(dIn) /\ dOut2 = dOut

(***************************************************************************)
(* The classifier: predict.py, simple_predict, lines 36-75                 *)
(***************************************************************************)
positive_words ==
    << <<"b","r","e","a","k","t","h","r","o","u","g","h">>,
       <<"s","u","c","c","e","s","s">>,
       <<"g","r","o","w">>,
       <<"i","n","c","r","e","a","s","e">>,
       <<"r","i","s","e">>,
       <<"u","p">>,
       <<"h","i","g","h">>,
       <<"g","o","o","d">>,
       <<"g","r","e","a","t">>,
       <<"e","x","c","e","l","l","e","n","t">>,
       <<"p","o","s","i","t","i","v","e">>,
       <<"w","i","n">>,
       <<"g","a","i","n","s">>,
       <<"b","o","o","s","t">>,
       <<"i","m","p","r","o","v","e">>,
       <<"c","e","l","e","b","r","a","t","e">>,
       <<"a","c","h","i","e","v","e","m","e","n","t">>,
       <<"p","r","o","g","r","e","s","s">>,
       <<"r","e","c","o","v","e","r">>,
       <<"b","e","n","e","f","i","c","i","a","l">>,
       <<"h","o","p","e">>,
       <<"i","n","n","o","v","a","t","i","o","n">>,
       <<"a","d","v","a","n","c","e">>,
       <<"v","i","c","t","o","r","y">>,
       <<"m","i","l","e","s","t","o","n","e">> >>

negative_words ==
    << <<"b","r","e","a","c","h">>,
       <<"a","t","t","a","c","k">>,
       <<"c","r","i","s","i","s">>,
       <<"r","e","c","e","s","s","i","o","n">>,
       <<"d","o","w","n">>,
       <<"f","a","l","l">>,
       <<"c","r","a","s","h">>,
       <<"d","e","c","l","i","n","e">>,
       <<"l","o","s","s">>,
       <<"n","e","g","a","t","i","v","e">>,
       <<"f","a","i","l">>,
       <<"p","r","o","b","l","e","m">>,
       <<"i","s","s","u","e">>,
       <<"c","o","n","c","e","r","n">>,
       <<"t","h","r","e","a","t">>,
       <<"r","i","s","k">>,
       <<"d","a","n","g","e","r">>,
       <<"d","i","s","a","s","t","e","r">>,
       <<"e","m","e","r","g","e","n","c","y">>,
       <<"v","i","o","l","e","n","c","e">>,
       <<"u","n","e","m","p","l","o","y","m","e","n","t">>,
       <<"l","a","y","o","f","f","s">>,
       <<"c","o","r","r","u","p","t","i","o","n">>,
       <<"f","r","a","u","d">> >>

\* a hit count that adds up every occurrence of every entry
HitsAllOccurrences(words, title) ==
    LET occ(w) == Cardinality({i \in 1..(Len(title) - Len(w) + 1) :
                                   SubSeq(title, i, i + Len(w) - 1) = w})
        sum[k \in 0..Len(words)] == IF k = 0 THEN 0 ELSE sum[k - 1] + occ(words[k])
    IN  sum[Len(words)]

\* sum(1 for word in words if word in title): the number of entries of the
\* lexicon that occur in the title, each counted once
Hits(words, title) ==
    Cardinality({k \in 1..Len(words) : Contains(title, words[k])})

\* the if / elif / else of lines 59-68; prediction 1 stands for the float 1.0
\* and 0 for 0.0
Sentiment(pos_count, neg_count) ==
    IF pos_count > neg_count THEN [sentiment |-> "Positive", prediction |-> 1]
    ELSE IF neg_count > pos_count THEN [sentiment |-> "Negative", prediction |-> 0]
    ELSE [sentiment |-> "Positive", prediction |-> 1]

\* one iteration of the loop over the rows, for one title
Classify(rowTitle) ==
    LET title == Lower(rowTitle)
    IN  Sentiment(Hits(positive_words, title), Hits(negative_words, title))

\* ---- the inputs of the classifier check ----
MaxWords == 3

ClassTokens ==
    { <<"W","i","n">>, <<"c","r","a","s","h">>, <<"L","o","s","s">>,
      <<"c","o","r","r","u","p","t","i","o","n">>, <<"H","i","g","h","s">>,
      <<"b","u","d","g","e","t">>, <<"w","i","n","n","i","n","g">> }

ClassTitles == {JoinWords(ws) : ws \in SeqsUpTo(ClassTokens, MaxWords)}

NoResult == [sentiment |-> "none", prediction |-> -1]

ClassIdle == cTitle = <<>> /\ cRes = NoResult /\ cPc = "idle"

ClassInit == cTitle \in ClassTitles /\ cRes = NoResult /\ cPc = "start"

\* the classifier applied to one row
ClassifyRow ==
    /\ cPc = "start"
    /\ cRes' = Classify(cTitle)
    /\ cPc' = "done"
    /\ UNCHANGED <<cTitle, notClass>>

\* ---- C10 ----
Entries(words) == {words[k] : k \in 1..Len(words)}

Substrings(t) == {SubSeq(t, i, j) : i \in 1..Len(t), j \in 1..Len(t)}

\* the number of places of t at which an entry of the lexicon starts
OccurrenceCount(words, t) ==
    Cardinality({<<i, w>> \in (1..Len(t)) \X Entries(words) :
                     i + Len(w) - 1 <= Len(t) /\ SubSeq(t, i, i + Len(w) - 1) = w})

\* the number of entries of the lexicon that occur in t at least once
EntryCount(words, t) == Cardinality(Entries(words) \cap Substrings(t))

\* the decision rule of the claim for hit counts p and n, on a result r
DecisionRule(p, n, r) ==
    /\ p > n => r.sentiment = "Positive"
    /\ n > p => r.sentiment = "Negative"
    /\ p = n => r.sentiment = "Positive"
    /\ r.sentiment \in {"Positive", "Negative"}
    /\ r.prediction = 1 <=> r.sentiment = "Positive"
    /\ r.prediction = 0 <=> r.sentiment = "Negative"

\* C10 as stated: p and n count the substring occurrences of the lexicons'
\* entries in the lowercased title, and the label is Positive when p >= n,
\* Negative when n > p, the score 1.0 exactly for Positive and 0.0 exactly
\* for Negative.
C10_Original ==
    cPc = "done" =>
        DecisionRule(OccurrenceCount(positive_words, Lower(cTitle)),
                     OccurrenceCount(negative_words, Lower(cTitle)), cRes)

\* C10 amended: p and n count the entries of each lexicon that occur in the
\* lowercased title at least once (an entry that occurs several times counts
\* once; an entry inside a longer word counts); the rule is as stated.
C10_ClassifierRule ==
    cPc = "done" =>
        DecisionRule(EntryCount(positive_words, Lower(cTitle)),
                     EntryCount(negative_words, Lower(cTitle)), cRes)

\* a title in which a Negative entry occurs twice and a Positive entry once,
\* upper-cased: a tie of entries, labelled Positive
C10_Witness ==
    /\ cPc = "done"
    /\ cTitle = JoinWords(<< <<"c","r","a","s","h">>, <<"c","r","a","s","h">>,
                             <<"W","i","n">> >>)
    /\ cRes.sentiment = "Positive"

(***************************************************************************)
(* The source adapters: fetch_news.py, NewsAPIFetcher and RSSFetcher       *)
(***************************************************************************)
\* the provider's marker of a removed article
Removed == <<"[","R","e","m","o","v","e","d","]">>

\* the per-article test of line 54 / 97
ArticleKept(article) == TruthyStr(article.title) /\ article.title # Removed

RECURSIVE ArticleLoop(_, _, _)
\* the loop over data['articles'] from article i on; an article that passes
\* the title test and lacks 'publishedAt' or 'source' raises, which the
\* except clause turns into the empty list
ArticleLoop(articles, i, headlines) ==
    IF i > Len(articles) THEN PyList(headlines)
    ELSE IF ~ArticleKept(articles[i]) THEN ArticleLoop(articles, i + 1, headlines)
    ELSE IF ~articles[i].complete THEN PyList(<<>>)
    ELSE ArticleLoop(articles, i + 1,
                     Append(headlines, [title  |-> articles[i].title,
                                        source |-> articles[i].source]))

\* the value fetch_headlines / fetch_everything returns, for a credential
\* and an outcome of the remote call
NewsApiFetch(key, remote) ==
    IF ~key THEN PyList(<<>>)
    ELSE IF remote.kind \in {"timeout", "http_error", "malformed", "no_status"}
         THEN PyList(<<>>)
    ELSE IF remote.status = "ok" THEN ArticleLoop(remote.articles, 1, <<>>)
    ELSE PyNone

\* the number of requests the call issues
NewsApiRequests(key) == IF key THEN 1 ELSE 0

\* ---- feed documents ----
\* An element of an item: present or not, its text (None for an empty
\* element) and the number of its child elements.
NoElem == [present |-> FALSE, text |-> PyNoneStr, children |-> 0]

\* item.find(tag): the RSS dialect's tags are plain, the Atom dialect's are
\* in the Atom namespace, so each find sees only its own dialect's elements
Find(dialect, elem, wanted) ==
    IF elem.present /\ dialect = wanted THEN elem ELSE NoElem

\* the truth value of what find returned: None is false, and an Element is
\* false when it has no child elements
TruthyElem(e) == e.present /\ e.children > 0

\* "a or b" on what two finds returned
OrElem(a, b) == IF TruthyElem(a) THEN a ELSE b

\* the cap of "for item in items[:10]"
FeedCap == 10

\* the title the loop body computes for one item: None, or the text
ItemTitle(dialect, item) ==
    LET title_elem == OrElem(Find(dialect, item.title, "rss"),
                             Find(dialect, item.title, "atom"))
    IN  IF title_elem.present THEN title_elem.text ELSE PyNoneStr

\* the description the loop body computes for one item: "" unless an element
\* is found, then its text, or "" for an element without text
ItemDescription(dialect, item) ==
    LET desc_elem == OrElem(Find(dialect, item.description, "rss"),
                            Find(dialect, item.description, "atom"))
    IN  IF desc_elem.present /\ TruthyStr(desc_elem.text) THEN desc_elem.text
        ELSE <<>>

\* the length from which line 161 cuts a description
DescLimit == 200

\* line 161: description[:200] + "..." if len(description) > 200 else description
Truncate(description) ==
    IF Len(description) > DescLimit
    THEN SubSeq(description, 1, DescLimit) \o <<".", ".", ".">>
    ELSE description

RECURSIVE ItemLoop(_, _, _, _, _)
\* the loop over items[:10] from item i on
ItemLoop(dialect, items, source_name, i, headlines) ==
    IF i > Len(items) \/ i > FeedCap THEN headlines
    ELSE LET title == ItemTitle(dialect, items[i])
         IN  ItemLoop(dialect, items, source_name, i + 1,
                      IF TruthyStr(title)
                      THEN Append(headlines,
                                  [title  |-> Strip(title),
                                   source |-> source_name,
                                   description |->
                                       Truncate(ItemDescription(dialect, items[i]))])
                      ELSE headlines)

\* the value fetch_from_rss returns for an outcome of the remote call
FetchFromRss(remote, source_name) ==
    IF remote.kind \in {"timeout", "http_error", "malformed"} THEN PyList(<<>>)
    ELSE PyList(ItemLoop(remote.dialect, remote.items, source_name, 1, <<>>))

\* ---- the inputs of the adapter check ----
MaxArticles == 2
MaxItems == 2
MaxLongFeed == 12

ApiTitles == {PyNoneStr, <<>>, Removed, <<" ">>, <<"A">>}

Articles == [title : ApiTitles, complete : BOOLEAN, source : {"Reuters"}]

ApiRemotes ==
    [kind : {"timeout", "http_error", "malformed", "no_status"},
     status : {"none"}, articles : {<<>>}]
    \cup [kind : {"json"}, status : {"ok", "error"},
          articles : SeqsUpTo(Articles, MaxArticles)]

FeedTexts == {PyNoneStr, <<" ">>, Removed, <<"A">>, <<" ","A"," ">>}

\* a text of n characters: abc...zabc...
TextOfLen(n) == [i \in 1..n |-> LowerCs[((i - 1) % 26) + 1]]

\* the description elements of an item: none, one without text, and ones with
\* a text of 3, 200 and 201 characters; the last also with a child element
FeedDescriptions ==
    {NoElem}
    \cup [present : {TRUE}, children : {0},
          text : {PyNoneStr, TextOfLen(3), TextOfLen(DescLimit), TextOfLen(DescLimit + 1)}]
    \cup {[present |-> TRUE, children |-> 1, text |-> TextOfLen(DescLimit + 1)]}

FeedItems ==
    [title : {NoElem} \cup [present : {TRUE}, text : FeedTexts, children : {0, 1}],
     description : FeedDescriptions]

\* n items titled A, B, A, B, ... without child elements
LongFeed(n) ==
    [i \in 1..n |-> [title |-> [present |-> TRUE, children |-> 0,
                                text |-> IF i % 2 = 1 THEN <<"A">> ELSE <<"B">>],
                     description |-> NoElem]]

FeedRemotes ==
    [kind : {"timeout", "http_error", "malformed"}, dialect : {"rss"}, items : {<<>>}]
    \cup [kind : {"xml"}, dialect : {"rss", "atom"},
          items : SeqsUpTo(FeedItems, MaxItems)
                  \cup {LongFeed(n) : n \in (FeedCap - 1)..MaxLongFeed}]

NoApi == [kind |-> "none", status |-> "none", articles |-> <<>>]
NoFeed == [kind |-> "none", dialect |-> "none", items |-> <<>>]
NoInput == [key |-> FALSE, api |-> NoApi, feed |-> NoFeed]

AdapterIdle ==
    /\ aCall = "none" /\ aInput = NoInput /\ aRes = PyNone
    /\ aRequests = 0 /\ aPc = "idle"

AdapterInit ==
    /\ aCall = "none" /\ aInput = NoInput /\ aRes = PyNone
    /\ aRequests = 0 /\ aPc = "start"

\* one call of NewsAPIFetcher.fetch_headlines
CallFetchHeadlines ==
    /\ aPc = "start"
    /\ \E key \in BOOLEAN, remote \in ApiRemotes :
          /\ aInput' = [key |-> key, api |-> remote, feed |-> NoFeed]
          /\ aRes' = NewsApiFetch(key, remote)
          /\ aRequests' = NewsApiRequests(key)
    /\ aCall' = "fetch_headlines"
    /\ aPc' = "returned"
    /\ UNCHANGED notAdapter

\* one call of NewsAPIFetcher.fetch_everything: the same body with another
\* URL and query
CallFetchEverything ==
    /\ aPc = "start"
    /\ \E key \in BOOLEAN, remote \in ApiRemotes :
          /\ aInput' = [key |-> key, api |-> remote, feed |-> NoFeed]
          /\ aRes' = NewsApiFetch(key, remote)
          /\ aRequests' = NewsApiRequests(key)
    /\ aCall' = "fetch_everything"
    /\ aPc' = "returned"
    /\ UNCHANGED notAdapter

\* one call of RSSFetcher.fetch_from_rss
CallFetchFromRss ==
    /\ aPc = "start"
    /\ \E remote \in FeedRemotes :
          /\ aInput' = [key |-> FALSE, api |-> NoApi, feed |-> remote]
          /\ aRes' = FetchFromRss(remote, "BBC News")
    /\ aRequests' = 1
    /\ aCall' = "fetch_from_rss"
    /\ aPc' = "returned"
    /\ UNCHANGED notAdapter

\* ---- C4, C5 ----
\* the remote call of the adapter call ended in a failure
RemoteFailed ==
    \/ aCall \in {"fetch_headlines", "fetch_everything"}
       /\ \/ aInput.api.kind \in {"timeout", "http_error", "malformed", "no_status"}
          \/ aInput.api.kind = "json" /\ aInput.api.status # "ok"
    \/ aCall = "fetch_from_rss"
       /\ aInput.feed.kind \in {"timeout", "http_error", "malformed"}

\* C4: every adapter call returns a sequence of Headline for every outcome of
\* the remote call: the empty sequence on a timeout, an HTTP error status, a
\* malformed payload or a payload whose status is not a success, and, for the
\* keyed API adapter without a credential, the empty sequence with no request
\* issued.
C4_AdaptersReturnSequence ==
    aPc = "returned" =>
        /\ aRes.isList
        /\ RemoteFailed => aRes = PyList(<<>>)
        /\ (aCall \in {"fetch_headlines", "fetch_everything"} /\ ~aInput.key)
               => (aRes = PyList(<<>>) /\ aRequests = 0)

\* C5: every Headline an adapter produces has a title that is non-empty and is
\* not the provider's "[Removed]" marker, whichever adapter produced it and
\* whatever titles the provider returned.
C5_TitlesValid ==
    aPc = "returned" =>
        \A i \in 1..Len(aRes.items) :
            aRes.items[i].title # <<>> /\ aRes.items[i].title # Removed

(***************************************************************************)
(* The files under data/                                                   *)
(***************************************************************************)
\* A timestamped file is a record [ts, ctime, rows]: the second its name
\* embeds, its change time (the number of the write that made it) and its
\* rows. A directory is a set of them with pairwise different ts.
PutFile(dir, ts, ctime, rows) ==
    {f \in dir : f.ts # ts} \cup {[ts |-> ts, ctime |-> ctime, rows |-> rows]}

\* a "latest" file that does not exist
NoFile == [exists |-> FALSE, complete |-> FALSE, rows |-> <<>>]
NoStatsFile == [exists |-> FALSE, complete |-> FALSE, stats |-> [timestamp |-> -1]]

(***************************************************************************)
(* The fetch run: fetch_news.py, fetch_news_simple, lines 173-252          *)
(***************************************************************************)
\* "if len(all_headlines) < 5", line 192
FeedThreshold == 5
\* "if len(all_headlines) >= 15", line 203
EnoughThreshold == 15
\* "if len(all_headlines) < 3", line 208
MinHeadlines == 3
\* "search_headlines[:10]", line 189
SearchCap == 10

\* the display names of rss_sources, in its order
rss_sources == <<"BBC News", "Reuters", "CNN">>

\* the first n items of a list: lst[:n]
Take(lst, n) == SubSeq(lst, 1, IF Len(lst) < n THEN Len(lst) ELSE n)

\* the feeds are consulted
NeedFeeds(all) == Len(all) < FeedThreshold

\* an early-stop test that is off by one
EnoughStrict(all) == Len(all) > EnoughThreshold

\* the loop over the feeds stops early
Enough(all) == Len(all) >= EnoughThreshold

\* a floor that is off by one
InsufficientBelowTwo(all) == Len(all) < MinHeadlines - 1

\* the terminal check: the run aborts
Insufficient(all) == Len(all) < MinHeadlines

\* ---- what the providers return during a run ----
WordTitles == << <<"W","i","n">>, <<"c","r","a","s","h">>, <<"b","u","d","g","e","t">> >>

Schemes == {"distinct", "same", "pairs", "words"}

\* the title of the headline at position p (from 0) of the accumulated list
SchemeTitle(scheme, p) ==
    CASE scheme = "distinct" -> NthTitle(p % 25, p % 2 = 1)
      [] scheme = "same"     -> NthTitle(0, p % 2 = 1)
      [] scheme = "pairs"    -> NthTitle((p \div 2) % 25, p % 2 = 1)
      [] scheme = "words"    -> WordTitles[(p % 3) + 1]

\* n headlines of a source that continue the scheme from position from
Items(scheme, from, n, source) ==
    [i \in 1..n |-> [title |-> SchemeTitle(scheme, from + i - 1), source |-> source]]

MaxApiItems == 12

ApiCounts == {0, 1, 2, 4, 5, MaxApiItems}
FeedCounts == {0, 1, 2, 3, 5, FeedCap}

\* what a keyed API call can return: None (see NewsApiFetch) or a list
ApiReturns(from) ==
    {PyNone} \cup {PyList(Items(fEnv.scheme, from, n, "NewsAPI")) : n \in fEnv.api}

\* what a feed call can return: a list of at most 10 headlines
FeedReturns(from, source) ==
    {PyList(Items(fEnv.scheme, from, n, source)) : n \in fEnv.feed}

\* one entry of the log of adapter calls
Call(name, before, after) == [name |-> name, before |-> before, after |-> after]

FetchIdle ==
    /\ fEnv = [scheme |-> "distinct", api |-> {}, feed |-> {}]
    /\ fPc = "idle" /\ fKey = FALSE /\ fAll = <<>> /\ fFeed = 0
    /\ fCalls = <<>> /\ fRet = "none" /\ fPre = <<>>

FsIdle ==
    /\ now = 0 /\ ctimes = 0 /\ rawDir = {} /\ predDir = {}
    /\ latestCsv = NoFile /\ latestStats = NoStatsFile

\* lines 182-184: the top-headlines call, made when a credential is present
ApiHeadlines ==
    /\ fPc = "start" /\ fKey
    /\ \E headlines \in ApiReturns(Len(fAll)) :
          LET all2 == IF Truthy(headlines) THEN fAll \o headlines.items ELSE fAll
          IN  /\ fAll' = all2
              /\ fCalls' = Append(fCalls, Call("fetch_headlines", Len(fAll), Len(all2)))
    /\ fPc' = "search"
    /\ UNCHANGED <<fEnv, fKey, fFeed, fRet, fPre, fsVars, notFetch>>

\* lines 187-189: the search call, of which at most 10 results are kept
ApiSearch ==
    /\ fPc = "search"
    /\ \E search_headlines \in ApiReturns(Len(fAll)) :
          LET all2 == IF Truthy(search_headlines)
                      THEN fAll \o Take(search_headlines.items, SearchCap)
                      ELSE fAll
          IN  /\ fAll' = all2
              /\ fCalls' = Append(fCalls, Call("fetch_everything", Len(fAll), Len(all2)))
    /\ fPc' = "feeds"
    /\ UNCHANGED <<fEnv, fKey, fFeed, fRet, fPre, fsVars, notFetch>>

\* line 181 without a credential: no call of the keyed API
NoApiKey ==
    /\ fPc = "start" /\ ~fKey
    /\ fPc' = "feeds"
    /\ UNCHANGED <<fEnv, fKey, fAll, fFeed, fCalls, fRet, fPre, fsVars, notFetch>>

\* line 192: the feeds are consulted, or skipped
FeedsOrNot ==
    /\ fPc = "feeds"
    /\ IF NeedFeeds(fAll) THEN fPc' = "feed" /\ fFeed' = 1
       ELSE fPc' = "check" /\ fFeed' = 0
    /\ UNCHANGED <<fEnv, fKey, fAll, fCalls, fRet, fPre, fsVars, notFetch>>

\* lines 200-205: one iteration of the loop over rss_sources: the call, the
\* early stop, and otherwise the sleep of one second
FetchFeed ==
    /\ fPc = "feed"
    /\ \E headlines \in FeedReturns(Len(fAll), rss_sources[fFeed]) :
          LET all2 == fAll \o headlines.items
          IN  /\ fAll' = all2
              /\ fCalls' = Append(fCalls, Call(rss_sources[fFeed], Len(fAll), Len(all2)))
              /\ IF Enough(all2)
                 THEN fPc' = "check" /\ fFeed' = fFeed /\ now' = now
                 ELSE /\ now' = now + 1
                      /\ IF fFeed = Len(rss_sources)
                         THEN fPc' = "check" /\ fFeed' = fFeed
                         ELSE fPc' = "feed" /\ fFeed' = fFeed + 1
    /\ UNCHANGED <<fEnv, fKey, fRet, fPre, ctimes, rawDir, predDir, latestCsv,
                   latestStats, notFetch>>

\* lines 208-213: too few headlines: the run logs and returns None
FetchAbort ==
    /\ fPc = "check" /\ Insufficient(fAll)
    /\ fRet' = "None"
    /\ fPc' = "done"
    /\ UNCHANGED <<fEnv, fKey, fAll, fFeed, fCalls, fPre, fsVars, notFetch>>

\* lines 219-252: deduplicate, write data/raw/headlines_<timestamp>.csv and
\* return the frame
FetchSave ==
    /\ fPc = "check" /\ ~Insufficient(fAll)
    /\ rawDir' = PutFile(rawDir, now, ctimes, Dedup(fAll))
    /\ ctimes' = ctimes + 1
    /\ fRet' = "df"
    /\ fPc' = "done"
    /\ UNCHANGED <<fEnv, fKey, fAll, fFeed, fCalls, fPre, now, predDir, latestCsv,
                   latestStats, notFetch>>

(***************************************************************************)
(* Python floats: IEEE 754 binary64, round to nearest, ties to even        *)
(***************************************************************************)
\* A float >= 0 is a record [m, e]: m its 53 significand bits, most
\* significant first and m[1] = 1, and e the exponent of m[1]; its value is
\* the sum of m[i] * 2^(e - i + 1). Zero has the empty significand. The
\* arithmetic on strings of bits goes through digits of 13 bits, so that no
\* intermediate number leaves the range of the integers checked.
SignificandBits == 53
DigitBits == 13
Radix == 8192

FloatZero == [m |-> <<>>, e |-> 0]

Pow2(k) == IF k = 0 THEN 1 ELSE 2^k

Zeros(n) == [i \in 1..n |-> 0]

\* a string of bits plus one (one bit longer when all bits were 1)
IncrBits(b) ==
    IF \A i \in 1..Len(b) : b[i] = 1 THEN <<1>> \o Zeros(Len(b))
    ELSE LET k == CHOOSE i \in 1..Len(b) :
                      b[i] = 0 /\ \A j \in (i + 1)..Len(b) : b[j] = 1
         IN  [i \in 1..Len(b) |-> IF i < k THEN b[i] ELSE IF i = k THEN 1 ELSE 0]

\* a string of bits without its leading zeros
StripZeros(b) ==
    IF \A i \in 1..Len(b) : b[i] = 0 THEN <<>>
    ELSE LET k == CHOOSE i \in 1..Len(b) : b[i] = 1 /\ \A j \in 1..(i - 1) : b[j] = 0
         IN  SubSeq(b, k, Len(b))

\* the digits of a string of bits, most significant first
BitsToDigits(b) ==
    LET n   == (Len(b) + DigitBits - 1) \div DigitBits
        pad == Zeros(n * DigitBits - Len(b)) \o b
        Bit(j, i) == pad[(j - 1) * DigitBits + i] * Pow2(DigitBits - i)
    IN  [j \in 1..n |->
            Bit(j, 1) + Bit(j, 2) + Bit(j, 3) + Bit(j, 4) + Bit(j, 5) + Bit(j, 6)
          + Bit(j, 7) + Bit(j, 8) + Bit(j, 9) + Bit(j, 10) + Bit(j, 11)
          + Bit(j, 12) + Bit(j, 13)]

\* the bits of a string of digits, 13 for each digit
DigitsToBits(d) ==
    [i \in 1..(Len(d) * DigitBits) |->
        (d[(i - 1) \div DigitBits + 1] \div Pow2(DigitBits - 1 - ((i - 1) % DigitBits))) % 2]

\* the float nearest to the exact value whose bits (leading bit 1, of
\* exponent e) are given, with sticky telling that the value exceeds the
\* bits by less than one unit of the last bit given
RoundFloat(bits, e, sticky) ==
    IF Len(bits) <= SignificandBits
    THEN [m |-> bits \o Zeros(SignificandBits - Len(bits)), e |-> e]
    ELSE LET keep  == SubSeq(bits, 1, SignificandBits)
             guard == bits[SignificandBits + 1]
             rest  == sticky \/ \E i \in (SignificandBits + 2)..Len(bits) : bits[i] = 1
             up    == guard = 1 /\ (rest \/ keep[SignificandBits] = 1)
             m2    == IF up THEN IncrBits(keep) ELSE keep
         IN  IF Len(m2) > SignificandBits
             THEN [m |-> SubSeq(m2, 1, SignificandBits), e |-> e + 1]
             ELSE [m |-> m2, e |-> e]

RECURSIVE DivDigits(_, _, _, _)
\* n further digits of the expansion of a quotient with remainder r < b and
\* divisor b, appended to digits; the final remainder decides the sticky flag
DivDigits(r, b, n, digits) ==
    IF n = 0 THEN [digits |-> digits, sticky |-> r # 0]
    ELSE DivDigits((r * Radix) % b, b, n - 1, Append(digits, (r * Radix) \div b))

\* the exponent of the leading bit of a / b, for integers a, b > 0
QuotientExp(a, b) ==
    IF a >= b THEN CHOOSE k \in 0..16 : b * Pow2(k) <= a /\ a < b * Pow2(k + 1)
    ELSE -(CHOOSE k \in 1..16 : a * Pow2(k) >= b /\ a * Pow2(k - 1) < b)

\* a / b for Python ints a >= 0, b > 0: the correctly rounded quotient
FloatDiv(a, b) ==
    IF a = 0 THEN FloatZero
    ELSE LET e  == QuotientExp(a, b)
             a2 == IF e < 0 THEN a * Pow2(-e) ELSE a
             b2 == IF e > 0 THEN b * Pow2(e) ELSE b
             d  == DivDigits(a2 - b2, b2, 5, <<>>)
         IN  RoundFloat(<<1>> \o DigitsToBits(d.digits), e, d.sticky)

RECURSIVE MulDigits(_, _, _, _)
\* the digits of (the number with digits d) * k + carry, for a small k,
\* computed from the last digit to the first
MulDigits(d, k, carry, out) ==
    IF d = <<>> THEN IF carry = 0 THEN out ELSE <<carry>> \o out
    ELSE LET v == d[Len(d)] * k + carry
         IN  MulDigits(SubSeq(d, 1, Len(d) - 1), k, v \div Radix, <<v % Radix>> \o out)

\* x * k for a float x and a small Python int k > 0
FloatMulInt(x, k) ==
    IF x.m = <<>> THEN FloatZero
    ELSE LET p == StripZeros(DigitsToBits(MulDigits(BitsToDigits(x.m), k, 0, <<>>)))
         IN  RoundFloat(p, x.e + (Len(p) - Len(x.m)), FALSE)

RECURSIVE AddDigits(_, _, _, _)
\* the digits of the sum of two numbers given by as many digits each
AddDigits(a, b, carry, out) ==
    IF a = <<>> THEN IF carry = 0 THEN out ELSE <<carry>> \o out
    ELSE LET v == a[Len(a)] + b[Len(b)] + carry
         IN  AddDigits(SubSeq(a, 1, Len(a) - 1), SubSeq(b, 1, Len(b) - 1),
                       v \div Radix, <<v % Radix>> \o out)

\* x + y for floats x, y >= 0
FloatAdd(x, y) ==
    IF x.m = <<>> THEN y
    ELSE IF y.m = <<>> THEN x
    ELSE LET hi == IF x.e >= y.e THEN x ELSE y
             lo == IF x.e >= y.e THEN y ELSE x
             sh == hi.e - lo.e
             a  == hi.m \o Zeros(sh)
             b  == Zeros(sh) \o lo.m
             s  == StripZeros(DigitsToBits(AddDigits(BitsToDigits(a), BitsToDigits(b), 0, <<>>)))
         IN  RoundFloat(s, hi.e + (Len(s) - Len(a)), FALSE)

\* float(n) for a small Python int n >= 0
FloatOfInt(n) == FloatDiv(n, 1)

\* x <= y for floats x, y >= 0
FloatLeq(x, y) ==
    \/ x.m = <<>>
    \/ y.m # <<>> /\ x.e < y.e
    \/ /\ y.m # <<>> /\ x.e = y.e
       /\ \/ x.m = y.m
          \/ \E i \in 1..SignificandBits :
                 /\ x.m[i] < y.m[i]
                 /\ \A j \in 1..(i - 1) : x.m[j] = y.m[j]

(***************************************************************************)
(* The classification run: predict.py, simple_predict                      *)
(***************************************************************************)
\* max(..., key=os.path.getctime): the raw file changed last
LatestFile(dir) == CHOOSE f \in dir : \A g \in dir : f.ctime >= g.ctime

\* pd.read_csv followed by str(row['title']): a field written empty is read
\* back as NaN, whose str is "nan"
StrOfCsvTitle(t) == IF t = <<>> THEN <<"n","a","n">> ELSE t

\* lines 52-78: one prediction row per row of the frame (processed_at, the
\* time of the iteration, is left out)
Predictions(df) ==
    [i \in 1..Len(df) |->
        LET c == Classify(StrOfCsvTitle(df[i].title))
        IN  [title |-> df[i].title, sentiment |-> c.sentiment,
             prediction |-> c.prediction]]

\* the number of rows with a label: len(pred_df[pred_df['sentiment'] == label])
CountLabel(preds, label) ==
    Cardinality({i \in 1..Len(preds) : preds[i].sentiment = label})

\* lines 102-103: (count / total * 100) if total > 0 else 0, in floats (the
\* int 0 of the else branch is written as FloatZero, to which it is equal)
Percentage(count, total) ==
    IF total > 0 THEN FloatMulInt(FloatDiv(count, total), 100) ELSE FloatZero

\* lines 93-104: the stats of a batch with at least one row
Stats(preds, timestamp) ==
    [timestamp           |-> timestamp,
     total_headlines     |-> Len(preds),
     positive_count      |-> CountLabel(preds, "Positive"),
     negative_count      |-> CountLabel(preds, "Negative"),
     positive_percentage |-> Percentage(CountLabel(preds, "Positive"), Len(preds)),
     negative_percentage |-> Percentage(CountLabel(preds, "Negative"), Len(preds))]

\* the exit status of "python predict.py": 1 when simple_predict raised
PredictExit(ret) == IF ret = "raise" THEN 1 ELSE 0

\* the exit status of "python fetch_news.py": line 255 drops the value
\* fetch_news_simple returned
FetchExit(ret) == 0

PredictIdle ==
    /\ pPc = "idle" /\ pDf = <<>> /\ pPreds = <<>> /\ pTs = -1
    /\ pRet = "none" /\ pPre = <<NoFile, NoStatsFile>>

\* lines 18-27: no raw batch: log an error and return
PredictNoInput ==
    /\ pPc = "start" /\ rawDir = {}
    /\ pRet' = "None"
    /\ pPc' = "done"
    /\ UNCHANGED <<pDf, pPreds, pTs, pPre, fsVars, notPredict>>

\* lines 29-78: read the latest raw batch and classify its rows
PredictRead ==
    /\ pPc = "start" /\ rawDir # {}
    /\ pDf' = LatestFile(rawDir).rows
    /\ pPreds' = Predictions(LatestFile(rawDir).rows)
    /\ pPc' = "write_ts"
    /\ UNCHANGED <<pTs, pRet, pPre, fsVars, notPredict>>

\* lines 84-86: write data/predictions/predictions_<timestamp>.csv
PredictWriteTs ==
    /\ pPc = "write_ts"
    /\ pTs' = now
    /\ predDir' = PutFile(predDir, now, ctimes, pPreds)
    /\ ctimes' = ctimes + 1
    /\ pPc' = "open_latest"
    /\ UNCHANGED <<pDf, pPreds, pRet, pPre, now, rawDir, latestCsv, latestStats,
                   notPredict>>

\* line 90, to_csv opening latest.csv for writing: the file is truncated
PredictOpenLatest ==
    /\ pPc = "open_latest"
    /\ latestCsv' = [exists |-> TRUE, complete |-> FALSE, rows |-> <<>>]
    /\ pPc' = "write_latest"
    /\ UNCHANGED <<pDf, pPreds, pTs, pRet, pPre, now, ctimes, rawDir, predDir,
                   latestStats, notPredict>>

\* line 90, to_csv flushing a full buffer before the close: the first k rows
\* reach the file (one such flush is modelled)
PredictFlushLatest ==
    /\ pPc = "write_latest" /\ latestCsv.rows = <<>>
    /\ \E k \in 1..(Len(pPreds) - 1) :
          latestCsv' = [latestCsv EXCEPT !.rows = SubSeq(pPreds, 1, k)]
    /\ UNCHANGED <<pPc, pDf, pPreds, pTs, pRet, pPre, now, ctimes, rawDir, predDir,
                   latestStats, notPredict>>

\* line 90, to_csv closing latest.csv: all rows are in the file
PredictCloseLatest ==
    /\ pPc = "write_latest"
    /\ latestCsv' = [exists |-> TRUE, complete |-> TRUE, rows |-> pPreds]
    /\ pPc' = "open_stats"
    /\ UNCHANGED <<pDf, pPreds, pTs, pRet, pPre, now, ctimes, rawDir, predDir,
                   latestStats, notPredict>>

\* line 94: pd.DataFrame([]) of line 78 has no columns, so for a batch
\* without rows pred_df['sentiment'] raises KeyError and the run ends with
\* latest.csv rewritten and latest_stats.json as it was
PredictCountRaise ==
    /\ pPc = "open_stats" /\ Len(pPreds) = 0
    /\ pRet' = "raise"
    /\ pPc' = "done"
    /\ UNCHANGED <<pDf, pPreds, pTs, pPre, fsVars, notPredict>>

\* line 108, open(stats_path, 'w'): latest_stats.json is truncated
PredictOpenStats ==
    /\ pPc = "open_stats" /\ Len(pPreds) > 0
    /\ latestStats' = [exists |-> TRUE, complete |-> FALSE, stats |-> [timestamp |-> -1]]
    /\ pPc' = "write_stats"
    /\ UNCHANGED <<pDf, pPreds, pTs, pRet, pPre, now, ctimes, rawDir, predDir,
                   latestCsv, notPredict>>

\* lines 109-110: json.dump and the close of the with block
PredictCloseStats ==
    /\ pPc = "write_stats"
    /\ latestStats' = [exists |-> TRUE, complete |-> TRUE, stats |-> Stats(pPreds, pTs)]
    /\ pPc' = "log"
    /\ UNCHANGED <<pDf, pPreds, pTs, pRet, pPre, now, ctimes, rawDir, predDir,
                   latestCsv, notPredict>>

\* lines 111-120: the log lines (total is not 0 here: line 94 raised for a
\* batch without rows)
PredictLog ==
    /\ pPc = "log"
    /\ pRet' = "None"
    /\ pPc' = "done"
    /\ UNCHANGED <<pDf, pPreds, pTs, pPre, fsVars, notPredict>>

\* lines 84-109: a write raises (OSError of to_csv, open or json.dump) or the
\* process dies while writing: the run ends, and nothing restores or
\* completes the files it has written so far
PredictWriteFails ==
    /\ pPc \in {"write_ts", "open_latest", "write_latest", "open_stats", "write_stats"}
    /\ ~(pPc = "open_stats" /\ Len(pPreds) = 0)
    /\ pRet' = "raise"
    /\ pPc' = "failed"
    /\ UNCHANGED <<pDf, pPreds, pTs, pPre, fsVars, notPredict>>

(***************************************************************************)
(* The reader: dashboard.py, load_latest_predictions, lines 40-61          *)
(***************************************************************************)
Unread == [kind |-> "unread"]

\* lines 48-52: what pd.read_csv makes of latest.csv: no frame when the file
\* is absent, an error (no frame) when it is empty, else its rows
ObserveCsv(file) ==
    IF ~file.exists THEN [kind |-> "absent"]
    ELSE IF ~file.complete /\ file.rows = <<>> THEN [kind |-> "error"]
    ELSE [kind |-> "data", rows |-> file.rows]

\* lines 54-59: what json.load makes of latest_stats.json
ObserveStats(file) ==
    IF ~file.exists THEN [kind |-> "absent"]
    ELSE IF ~file.complete THEN [kind |-> "error"]
    ELSE [kind |-> "data", stats |-> file.stats]

\* a classification run is between its start and its end (or was killed)
InRun == pPc \in {"write_ts", "open_latest", "write_latest", "open_stats",
                  "write_stats", "log", "killed"}

\* the complete snapshots around the moment of a read: those before and after
\* the run in progress, or the current one when no run is in progress
CsvSnapshots ==
    IF InRun THEN {ObserveCsv(pPre[1]), [kind |-> "data", rows |-> pPreds]}
    ELSE {ObserveCsv(latestCsv)}
StatsSnapshots ==
    IF InRun /\ pTs # -1
    THEN {ObserveStats(pPre[2]), [kind |-> "data", stats |-> Stats(pPreds, pTs)]}
    ELSE {ObserveStats(latestStats)}

ReaderIdle == rPc = "idle" /\ rCsv = Unread /\ rStats = Unread

\* lines 48-52: the read of latest.csv, recorded with the snapshots around it
ReadCsv ==
    /\ rPc = "idle"
    /\ rCsv' = [kind |-> "read", seen |-> ObserveCsv(latestCsv), snapshots |-> CsvSnapshots]
    /\ rPc' = "stats"
    /\ UNCHANGED <<rStats, notReader>>

\* lines 54-61: the read of latest_stats.json
ReadStats ==
    /\ rPc = "stats"
    /\ rStats' = [kind |-> "read", seen |-> ObserveStats(latestStats),
                  snapshots |-> StatsSnapshots]
    /\ rPc' = "idle"
    /\ UNCHANGED <<rCsv, notReader>>

(***************************************************************************)
(* The refresh handler: dashboard.py, main, lines 92-102                   *)
(***************************************************************************)
MaxRuns == 1
MaxClock == 2

UiIdle == uiPc = "idle" /\ uiMsg = "none" /\ uiRuns = 0 /\ fExit = -1 /\ pExit = -1

PipeIdle == PredictIdle /\ ReaderIdle /\ UiIdle

\* line 97: the button starts "python fetch_news.py"
UiRefresh ==
    /\ uiPc = "idle" /\ uiRuns < MaxRuns
    /\ uiPc' = "fetching" /\ uiRuns' = uiRuns + 1 /\ uiMsg' = "none"
    /\ fExit' = -1 /\ pExit' = -1
    /\ fPc' = "start" /\ fAll' = <<>> /\ fFeed' = 0 /\ fCalls' = <<>>
    /\ fRet' = "none" /\ fPre' = <<rawDir, predDir, latestCsv, latestStats>>
    /\ UNCHANGED <<fEnv, fKey, fsVars, pureVars, predVars, readerVars>>

\* lines 97-98: the fetch process has exited (its memory is gone; what it
\* returned and what the files were before it are kept for the claims);
\* check=False ignores its status, and "python predict.py" is started
UiFetchExited ==
    /\ uiPc = "fetching" /\ fPc = "done"
    /\ fExit' = FetchExit(fRet)
    /\ uiPc' = "predicting"
    /\ fPc' = "exited" /\ fAll' = <<>> /\ fFeed' = 0 /\ fCalls' = <<>>
    /\ pPc' = "start" /\ pDf' = <<>> /\ pPreds' = <<>> /\ pTs' = -1
    /\ pRet' = "none" /\ pPre' = <<latestCsv, latestStats>>
    /\ UNCHANGED <<uiMsg, uiRuns, pExit, fEnv, fKey, fRet, fPre, fsVars, pureVars,
                   readerVars>>

\* lines 98-100: the predict process has exited; its status is ignored and
\* the refresh is reported as done
UiPredictExited ==
    /\ uiPc = "predicting" /\ pPc = "done"
    /\ pExit' = PredictExit(pRet)
    /\ uiMsg' = "success"
    /\ uiPc' = "idle"
    /\ pPc' = "exited" /\ pDf' = <<>> /\ pPreds' = <<>>
    /\ UNCHANGED <<uiRuns, fExit, pTs, pRet, pPre, fsVars, fetchVars, pureVars,
                   readerVars>>

\* lines 97, 101-102: the fetch process outlives timeout=30: it is killed and
\* the refresh is reported as failed
UiFetchTimeout ==
    /\ uiPc = "fetching" /\ fPc # "done"
    /\ fPc' = "killed" /\ fAll' = <<>> /\ fFeed' = 0 /\ fCalls' = <<>>
    /\ uiMsg' = "failed"
    /\ uiPc' = "idle"
    /\ UNCHANGED <<uiRuns, fExit, pExit, fEnv, fKey, fRet, fPre,
                   fsVars, predVars, pureVars, readerVars>>

\* lines 98, 101-102: the predict process outlives timeout=30
UiPredictTimeout ==
    /\ uiPc = "predicting" /\ pPc # "done"
    /\ pPc' = "killed"
    /\ uiMsg' = "failed"
    /\ uiPc' = "idle"
    /\ UNCHANGED <<uiRuns, fExit, pExit, pDf, pPreds, pTs, pRet, pPre,
                   fsVars, fetchVars, pureVars, readerVars>>

\* a second passes between two refreshes
Tick ==
    /\ uiPc = "idle" /\ now < MaxClock
    /\ now' = now + 1
    /\ UNCHANGED <<ctimes, rawDir, predDir, latestCsv, latestStats, fetchVars,
                   predVars, pureVars, readerVars, uiVars>>

(***************************************************************************)
(* Initial states                                                          *)
(***************************************************************************)
\* a raw batch file of an earlier run
OldRaw == [ts |-> 0, ctime |-> 0, rows |-> Items("distinct", 0, 3, "CNN")]

\* the snapshot an earlier classification run made of OldRaw
OldPreds == Predictions(OldRaw.rows)
OldSnapshot ==
    [pred  |-> {[ts |-> 0, ctime |-> 0, rows |-> OldPreds]},
     csv   |-> [exists |-> TRUE, complete |-> TRUE, rows |-> OldPreds],
     stats |-> [exists |-> TRUE, complete |-> TRUE, stats |-> Stats(OldPreds, 0)]]
NoSnapshot == [pred |-> {}, csv |-> NoFile, stats |-> NoStatsFile]

\* The files at the start: none, the raw batch of an earlier fetch run, or
\* that batch and the snapshot made of it.
OldFiles ==
    \E old \in {<<{}, NoSnapshot>>, <<{OldRaw}, NoSnapshot>>, <<{OldRaw}, OldSnapshot>>} :
        /\ rawDir = old[1]
        /\ predDir = old[2].pred
        /\ latestCsv = old[2].csv
        /\ latestStats = old[2].stats

\* one fetch run, started in second 1
FetchInit ==
    /\ now = 1 /\ ctimes = 1
    /\ OldFiles
    /\ fEnv \in [scheme : Schemes, api : {ApiCounts}, feed : {FeedCounts}]
    /\ fKey \in BOOLEAN
    /\ fPc = "start" /\ fAll = <<>> /\ fFeed = 0 /\ fCalls = <<>> /\ fRet = "none"
    /\ fPre = <<rawDir, predDir, latestCsv, latestStats>>

\* what the providers return in the runs of the pipeline
PipeApiCounts == {0, 5}
PipeFeedCounts == {0, 3}

\* the pipeline, idle in second 0
PipeInit ==
    /\ now = 0 /\ ctimes = 1
    /\ OldFiles
    /\ fEnv \in [scheme : {"words", "same"}, api : {PipeApiCounts}, feed : {PipeFeedCounts}]
    /\ fKey \in BOOLEAN
    /\ fPc = "idle" /\ fAll = <<>> /\ fFeed = 0 /\ fCalls = <<>> /\ fRet = "none"
    /\ fPre = <<>>
    /\ PipeIdle

MaxCount == 7

\* a raw batch of p headlines the classifier labels Positive followed by n it
\* labels Negative
LabelledRows(p, n) ==
    [i \in 1..(p + n) |->
        [title |-> IF i <= p THEN WordTitles[1] ELSE WordTitles[2], source |-> "CNN"]]

\* the raw batches a classification run can find: any number of rows, none
\* included (a file with the header line only)
RawBatches ==
    {[ts |-> 1, ctime |-> 1, rows |-> LabelledRows(p, n)] : p, n \in 0..MaxCount}

\* one classification run, started in second 1: without a raw batch, or with
\* a raw batch newer than the snapshot of an earlier run, if there is one
PredictInit ==
    /\ now = 1 /\ ctimes = 2
    /\ \/ /\ rawDir = {}
          /\ predDir = {} /\ latestCsv = NoFile /\ latestStats = NoStatsFile
       \/ \E raw \in RawBatches, old \in {<<{}, NoSnapshot>>, <<{OldRaw}, OldSnapshot>>} :
              /\ rawDir = old[1] \cup {raw}
              /\ predDir = old[2].pred
              /\ latestCsv = old[2].csv
              /\ latestStats = old[2].stats
    /\ pPc = "start" /\ pDf = <<>> /\ pPreds = <<>> /\ pTs = -1 /\ pRet = "none"
    /\ pPre = <<latestCsv, latestStats>>
    /\ FetchIdle /\ ReaderIdle /\ UiIdle

\* ---- C2, C3, C7 ----
\* the files under data/raw and data/predictions, with their contents
Files == <<rawDir, predDir, latestCsv, latestStats>>

LowerTitles(hs) == {Lower(hs[i].title) : i \in 1..Len(hs)}

\* C3: a fetch run with fewer than 3 headlines unique by case-insensitive
\* title aborts and writes nothing, and every raw batch file holds at least 3
\* headlines with pairwise distinct lowercased titles.
C3_ThreeUniqueOrAbort ==
    /\ (fPc = "done" /\ Cardinality(LowerTitles(fAll)) < 3) => Files = fPre
    /\ \A f \in rawDir : Cardinality(LowerTitles(f.rows)) >= 3

\* the calls of the keyed API and of the feeds, in the order made
ApiCalls ==
    SelectSeq(fCalls, LAMBDA c : c.name \in {"fetch_headlines", "fetch_everything"})
FeedCalls ==
    SelectSeq(fCalls, LAMBDA c : c.name \in {"BBC News", "Reuters", "CNN"})

\* the count accumulated from the keyed API steps
ApiCount == IF ApiCalls = <<>> THEN 0 ELSE ApiCalls[Len(ApiCalls)].after

\* C7: the feeds are consulted exactly when the count accumulated from the
\* keyed API steps (0 without a credential) is below 5; they are invoked in
\* the order BBC News, Reuters, CNN, each at most once, and feed k+1 is invoked
\* if and only if the accumulated count after feed k is below 15.
C7_FeedCascade ==
    fPc \in {"check", "done"} =>
        /\ ~fKey => ApiCalls = <<>>
        /\ fCalls = ApiCalls \o FeedCalls
        /\ FeedCalls # <<>> <=> ApiCount < 5
        /\ Len(FeedCalls) <= 3
        /\ \A k \in 1..Len(FeedCalls) :
               FeedCalls[k].name = <<"BBC News", "Reuters", "CNN">>[k]
        /\ \A k \in 1..2 :
               Len(FeedCalls) >= k + 1
                   <=> (Len(FeedCalls) >= k /\ FeedCalls[k].after < 15)

\* 2 items from the keyed API, then feeds returning 10 and 3: the third feed
\* is not invoked
C7_Witness ==
    /\ fPc = "done" /\ ApiCount = 2 /\ Len(FeedCalls) = 2
    /\ FeedCalls[1].after = 12 /\ FeedCalls[2].after = 15

\* ---- C1, C6 ----
\* C1: each read of latest.csv and of latest_stats.json by the reader returns
\* a complete snapshot, that of before or that of after the classification
\* run it races with: never a partially written file, nor a row count other
\* than that of the pre-write or the post-write snapshot.
C1_ReaderSeesSnapshot ==
    /\ rCsv.kind = "read" => rCsv.seen \in rCsv.snapshots
    /\ rStats.kind = "read" => rStats.seen \in rStats.snapshots

\* C6: a fetch run aborted for insufficient data and a classification run
\* without a raw batch exit with a non-zero status, and a refresh whose fetch
\* run aborted is not reported as successful.
C6_FailureSurfaced ==
    /\ (fExit # -1 /\ fRet = "None") => fExit # 0
    /\ (pExit # -1 /\ pTs = -1) => pExit # 0
    /\ uiMsg = "success" => fRet # "None"

\* ---- C11, C12 ----
\* 100.0
Hundred == FloatOfInt(100)

\* C11: a classification run that classified a batch, the empty batch
\* included, publishes stats of that run in which positive_count +
\* negative_count = total_headlines = the number of rows of the batch; when
\* total_headlines > 0 the two percentages add up to 100 and each lies in
\* [0, 100] (a float of the model is never below 0), and when
\* total_headlines = 0 both are 0.
C11_StatsInvariant ==
    (pPc = "done" /\ rawDir # {}) =>
        /\ latestStats.complete
        /\ latestStats.stats.timestamp = pTs
        /\ LET s == latestStats.stats
           IN  /\ s.positive_count + s.negative_count = s.total_headlines
               /\ s.total_headlines = Len(pDf)
               /\ s.total_headlines > 0 =>
                      /\ FloatAdd(s.positive_percentage, s.negative_percentage) = Hundred
                      /\ FloatLeq(s.positive_percentage, Hundred)
                      /\ FloatLeq(s.negative_percentage, Hundred)
               /\ s.total_headlines = 0 =>
                      /\ s.positive_percentage = FloatZero
                      /\ s.negative_percentage = FloatZero

\* C12: after a classification run that failed at a write step, latest.csv
\* and latest_stats.json are both those of before the run or both those of
\* the new batch: never the new batch with the old stats, nor a truncated
\* file.
C12_LatestNotPartial ==
    pPc = "failed" =>
        \/ <<latestCsv, latestStats>> = pPre
        \/ /\ latestCsv = [exists |-> TRUE, complete |-> TRUE, rows |-> pPreds]
           /\ latestStats = [exists |-> TRUE, complete |-> TRUE,
                             stats |-> Stats(pPreds, pTs)]

\* ---- C14 ----
\* the text of the description element of an item, "" without one
DescriptionText(item) ==
    IF item.description.present /\ TruthyStr(item.description.text)
    THEN item.description.text ELSE <<>>

\* a text of more than 200 characters cut to its first 200 and an ellipsis
Ellipsized(text) ==
    IF Len(text) > 200 THEN SubSeq(text, 1, 200) \o <<".", ".", ".">> ELSE text

\* the items among the first 10 of a document that carry a non-empty title text
TitledItems(items) ==
    SelectSeq(SubSeq(items, 1, IF Len(items) < 10 THEN Len(items) ELSE 10),
              LAMBDA item : item.title.present /\ TruthyStr(item.title.text))

\* C14: for a feed document fetched with success, in the RSS or the Atom
\* dialect, fetch_from_rss returns one Headline for each of the first 10
\* items that carries a non-empty title text, in document order and with
\* that text as its title, never more than 10 Headlines, and with the item's
\* description, cut to its first 200 characters and an ellipsis when it is
\* longer than 200 characters.
C14_FeedHeadlines ==
    (aPc = "returned" /\ aCall = "fetch_from_rss" /\ aInput.feed.kind = "xml") =>
        LET titled == TitledItems(aInput.feed.items)
        IN  /\ aRes.isList
            /\ Len(aRes.items) <= 10
            /\ Len(aRes.items) = Len(titled)
            /\ \A i \in 1..Len(aRes.items) :
                   /\ aRes.items[i].title = titled[i].title.text
                   /\ aRes.items[i].description = Ellipsized(DescriptionText(titled[i]))

\* ---- C13 ----
\* C13: no step of a fetch run or of a classification run overwrites,
\* modifies or deletes a timestamped file, data/raw/headlines_<ts>.csv or
\* data/predictions/predictions_<ts>.csv, written before: every such file is
\* there after the step, with the change time and the rows it had.
C13_HistoryImmutable ==
    [][/\ \A f \in rawDir : f \in rawDir'
       /\ \A f \in predDir : f \in predDir']_vars

\* ---- C15 ----
\* C15: after a whole refresh whose fetch run aborted for insufficient data,
\* latest.csv, latest_stats.json (its timestamp included) and the set of
\* timestamped prediction files are those of before the refresh.
C15_AbortedRefreshKeepsSnapshot ==
    (uiPc = "idle" /\ uiMsg = "success" /\ fRet = "None") =>
        <<predDir, latestCsv, latestStats>> = <<fPre[2], fPre[3], fPre[4]>>

(***************************************************************************)
(* Specifications                                                          *)
(***************************************************************************)
InitDedup == DedupInit /\ ClassIdle /\ AdapterIdle /\ FsIdle /\ FetchIdle /\ PipeIdle
NextDedup == DedupOnce \/ DedupTwice
SpecDedup == InitDedup /\ [][NextDedup]_vars

InitClassify == ClassInit /\ DedupIdle /\ AdapterIdle /\ FsIdle /\ FetchIdle /\ PipeIdle
NextClassify == ClassifyRow
SpecClassify == InitClassify /\ [][NextClassify]_vars

InitAdapters == AdapterInit /\ DedupIdle /\ ClassIdle /\ FsIdle /\ FetchIdle /\ PipeIdle
NextAdapters == CallFetchHeadlines \/ CallFetchEverything \/ CallFetchFromRss
SpecAdapters == InitAdapters /\ [][NextAdapters]_vars

InitFetch == FetchInit /\ DedupIdle /\ ClassIdle /\ AdapterIdle /\ PipeIdle
NextFetch ==
    \/ ApiHeadlines \/ ApiSearch \/ NoApiKey \/ FeedsOrNot \/ FetchFeed
    \/ FetchAbort \/ FetchSave
SpecFetch == InitFetch /\ [][NextFetch]_vars

InitPredict == PredictInit /\ DedupIdle /\ ClassIdle /\ AdapterIdle
NextPredict ==
    \/ PredictNoInput \/ PredictRead \/ PredictWriteTs \/ PredictOpenLatest
    \/ PredictFlushLatest \/ PredictCloseLatest \/ PredictCountRaise
    \/ PredictOpenStats \/ PredictCloseStats \/ PredictLog \/ PredictWriteFails
SpecPredict == InitPredict /\ [][NextPredict]_vars

Init == PipeInit /\ DedupIdle /\ ClassIdle /\ AdapterIdle
Next ==
    \/ UiRefresh \/ UiFetchExited \/ UiPredictExited \/ UiFetchTimeout
    \/ UiPredictTimeout \/ Tick
    \/ ApiHeadlines \/ ApiSearch \/ NoApiKey \/ FeedsOrNot \/ FetchFeed
    \/ FetchAbort \/ FetchSave
    \/ PredictNoInput \/ PredictRead \/ PredictWriteTs \/ PredictOpenLatest
    \/ PredictFlushLatest \/ PredictCloseLatest \/ PredictOpenStats
    \/ PredictCloseStats \/ PredictLog
    \/ ReadCsv \/ ReadStats
Spec == Init /\ [][Next]_vars

====
